---- MODULE Spec2Model ----
(***************************************************************************)
(* A model of pygenstub (src/pygenstub.py): the signature parser, the     *)
(* SignatureCollector visitor that builds the stub tree and gathers type  *)
(* names, the resolution of the gathered names in get_stub, and the       *)
(* rendering of the stub text.                                            *)
(*                                                                         *)
(* Text is modelled as a sequence of one-character strings, so that       *)
(* lengths, splitting, stripping and indentation are computed as the code *)
(* computes them.                                                         *)
(***************************************************************************)
EXTENDS Integers, Sequences, FiniteSets, TLC

VARIABLES
    \* ---- split_parameter_types, applied to one segment ----
    entries,            \* the top-level entries the segment was written from
    segment,            \* the argument of split_parameter_types
    types,              \* whether it was called, and its return value
    \* ---- FunctionStubNode.get_code, applied to one function ----
    fn_node,            \* the FunctionStubNode: name, signature, ast args
    fn_code,            \* result of get_code, Pending before the call
    \* ---- SignatureCollector ----
    stub_tree,          \* the stub nodes in creation order (root is id 0)
    units,              \* self.units: stack of stub node ids
    imported_names,     \* self.imported_names: ordered <<name, module>> pairs
    defined_types,      \* self.defined_types
    required_types,     \* self.required_types
    typing_installed,   \* whether __import__('typing') succeeds
    init_omitted,       \* an unannotated __init__ written directly in a class
                        \* that has a signature was given no stub node
    calls,              \* number of calls of SignatureCollector.get_stub
    groups,             \* the name groups of the last get_stub call
    status,             \* outcome of the last get_stub call
    out,                \* text returned by the last get_stub call
    stderr,             \* names printed on the error stream
    file                \* content of the written stub file, or NoFile

splitVars == <<entries, segment, types>>
fnVars == <<fn_node, fn_code>>
collectorVars == <<stub_tree, units, imported_names, defined_types,
                   required_types, typing_installed, init_omitted, calls,
                   groups, status, out, stderr, file>>
vars == <<entries, segment, types, fn_node, fn_code, stub_tree, units,
          imported_names, defined_types, required_types, typing_installed,
          init_omitted, calls, groups, status, out, stderr, file>>

\* Python's None, where a text is expected; no text has such an element
None == <<"None">>
\* the stub file when main has not written it
NoFile == <<"no file">>
\* the result of a call that has not been made
Pending == [exc |-> "pending", code |-> <<>>]
NotSplit == [called |-> FALSE, value |-> <<>>]

\* ------------------------------------------------------------------------
\* Bounds of the model
\* ------------------------------------------------------------------------
MaxSegLen == 6
MaxNodes == 3
MaxDepth == 3
MaxCalls == 2

\* ------------------------------------------------------------------------
\* Text helpers (Python str operations on sequences of characters)
\* ------------------------------------------------------------------------
Whitespace == {" ", "\n", "\t"}

Range(s) == {s[i] : i \in 1..Len(s)}

\* str.lstrip()
RECURSIVE LStrip(_)
LStrip(s) ==
    IF s = <<>> THEN <<>>
    ELSE IF Head(s) \in Whitespace THEN LStrip(Tail(s))
    ELSE s

\* str.rstrip()
RECURSIVE RStrip(_)
RStrip(s) ==
    IF s = <<>> THEN <<>>
    ELSE IF s[Len(s)] \in Whitespace THEN RStrip(SubSeq(s, 1, Len(s) - 1))
    ELSE s

\* str.strip()
Strip(s) == RStrip(LStrip(s))

\* sep.join(parts)
RECURSIVE Join(_, _)
Join(parts, sep) ==
    IF parts = <<>> THEN <<>>
    ELSE IF Len(parts) = 1 THEN parts[1]
    ELSE parts[1] \o sep \o Join(Tail(parts), sep)

\* s.startswith(p)
StartsWith(s, p) == Len(s) >= Len(p) /\ SubSeq(s, 1, Len(p)) = p

\* s.find(sub) + 1, or 0 when sub does not occur in s
Find(s, sub) ==
    LET hits == {i \in 1..(Len(s) - Len(sub) + 1) :
                    SubSeq(s, i, i + Len(sub) - 1) = sub}
    IN  IF hits = {} THEN 0 ELSE CHOOSE i \in hits : \A j \in hits : i <= j

\* sub in s
Contains(s, sub) == Find(s, sub) # 0

\* s.split(sep), for a non-empty separator
RECURSIVE SplitOn(_, _)
SplitOn(s, sep) ==
    LET i == Find(s, sep)
    IN  IF i = 0 THEN <<s>>
        ELSE <<SubSeq(s, 1, i - 1)>>
                \o SplitOn(SubSeq(s, i + Len(sep), Len(s)), sep)

\* s.splitlines(True): the lines of s, each with its terminator
RECURSIVE SplitLines(_)
SplitLines(s) ==
    IF s = <<>> THEN <<>>
    ELSE LET i == Find(s, <<"\n">>)
         IN  IF i = 0 THEN <<s>>
             ELSE <<SubSeq(s, 1, i)>> \o SplitLines(SubSeq(s, i + 1, Len(s)))

\* the sequences that list each element of a finite set once
RECURSIVE Orderings(_)
Orderings(S) ==
    IF S = {} THEN {<<>>}
    ELSE UNION {{<<x>> \o r : r \in Orderings(S \ {x})} : x \in S}

\* ------------------------------------------------------------------------
\* split_parameter_types
\* ------------------------------------------------------------------------

\* A plausible slip: every comma is a split point, whatever the depth.
RECURSIVE AllCommas(_, _, _)
AllCommas(s, i, bracket_depth) ==
    IF i > Len(s) THEN <<>>
    ELSE IF s[i] = "," THEN <<i>> \o AllCommas(s, i + 1, bracket_depth)
    ELSE AllCommas(s, i + 1, bracket_depth)

\* The scan of split_parameter_types: the positions of the commas met at
\* bracket depth zero, from position i on.
RECURSIVE TopLevelCommas(_, _, _)
TopLevelCommas(s, i, bracket_depth) ==
    IF i > Len(s) THEN <<>>
    ELSE IF s[i] = "," /\ bracket_depth = 0
         THEN <<i>> \o TopLevelCommas(s, i + 1, bracket_depth)
    ELSE IF s[i] = "[" THEN TopLevelCommas(s, i + 1, bracket_depth + 1)
    ELSE IF s[i] = "]" THEN TopLevelCommas(s, i + 1, bracket_depth - 1)
    ELSE TopLevelCommas(s, i + 1, bracket_depth)

split_parameter_types(s) ==
    IF s = <<>> THEN <<>>
    ELSE LET commas == TopLevelCommas(s, 1, 0)
             n == Len(commas)
         IN  [k \in 1..(n + 1) |->
                Strip(SubSeq(s,
                             IF k = 1 THEN 1 ELSE commas[k - 1] + 1,
                             IF k <= n THEN commas[k] - 1 ELSE Len(s)))]

\* ------------------------------------------------------------------------
\* The segments split_parameter_types is applied to
\* ------------------------------------------------------------------------
SegmentChars == {"a", " ", ",", "[", "]"}

TextsUpTo(n, chars) == UNION {[1..k -> chars] : k \in 0..n}

\* bracket depth after each prefix of s
RECURSIVE DepthAt(_, _)
DepthAt(s, i) ==
    IF i = 0 THEN 0
    ELSE DepthAt(s, i - 1)
            + (IF s[i] = "[" THEN 1 ELSE IF s[i] = "]" THEN -1 ELSE 0)

\* One entry of a parameter list: its brackets pair up and every comma in
\* it is inside a pair.
IsEntry(s) ==
    /\ DepthAt(s, Len(s)) = 0
    /\ \A i \in 1..Len(s) :
            /\ DepthAt(s, i) >= 0
            /\ s[i] = "," => DepthAt(s, i) > 0

EntriesUpTo(n) == {s \in TextsUpTo(n, SegmentChars) : IsEntry(s)}

\* the lists of entries whose comma-joined text is at most n characters
RECURSIVE EntryLists(_)
EntryLists(n) ==
    {<<e>> : e \in EntriesUpTo(n)}
    \cup (IF n = 0 THEN {}
          ELSE UNION {{<<e>> \o r : r \in EntryLists(n - 1 - Len(e))} :
                        e \in EntriesUpTo(n - 1)})

InitSplit ==
    /\ entries \in EntryLists(MaxSegLen)
    /\ segment = Join(entries, <<",">>)
    /\ types = NotSplit

SplitParameterTypes ==
    /\ ~types.called
    /\ types' = [called |-> TRUE, value |-> split_parameter_types(segment)]
    /\ UNCHANGED <<entries, segment>>


\* ------------------------------------------------------------------------
\* Program constants and literals
\* ------------------------------------------------------------------------
LINE_LENGTH_LIMIT == 79
INDENT_SIZE == 4
MULTILINE_STUB_INDENT_LEVEL == 2

Spaces(n) == [i \in 1..n |-> " "]
INDENT == Spaces(INDENT_SIZE)
MULTILINE_STUB_INDENT == Spaces(INDENT_SIZE * MULTILINE_STUB_INDENT_LEVEL)

\* ' -> '
ARROW == <<" ", "-", ">", " ">>
\* ' # sig: '
SIGNATURE_COMMENT == <<" ", "#", " ", "s", "i", "g", ":", " ">>
\* 'self'
SELF == <<"s", "e", "l", "f">>
\* '__init__'
INIT_NAME == <<"_", "_", "i", "n", "i", "t", "_", "_">>
\* 'THIS FILE IS AUTOMATICALLY GENERATED, DO NOT EDIT MANUALLY.'
EDIT_WARNING ==
    <<"T", "H", "I", "S", " ", "F", "I", "L", "E", " ", "I", "S", " ", "A", "U", "T", "O", "M", "A", "T", "I", "C", "A", "L", "L", "Y", " ", "G", "E", "N", "E", "R", "A", "T", "E", "D", ",", " ">>
        \o <<"D", "O", " ", "N", "O", "T", " ", "E", "D", "I", "T", " ", "M", "A", "N", "U", "A", "L", "L", "Y", ".">>

\* ------------------------------------------------------------------------
\* parse_signature, get_parameter_declaration
\* ------------------------------------------------------------------------

\* lhs[1:-1]
DropEnds(s) == IF Len(s) < 2 THEN <<>> ELSE SubSeq(s, 2, Len(s) - 1)

\* The tuple unpacking of parse_signature raises ValueError unless the
\* signature splits on ' -> ' into exactly two parts.
SignatureParts(signature) ==
    LET parts == SplitOn(signature, ARROW)
    IN  [k \in 1..Len(parts) |-> Strip(parts[k])]

parse_signature(signature) ==
    LET parts == SignatureParts(signature)
        parameters_def == Strip(DropEnds(parts[1]))
    IN  [parameter_types |-> split_parameter_types(parameters_def),
         return_type |-> parts[2]]

get_parameter_declaration(name, type_, has_default) ==
    IF type_ = <<>> THEN name
    ELSE name \o <<":", " ">> \o type_ \o (IF has_default THEN <<" ", "=", " ", ".", ".", ".">> ELSE <<>>)

\* ------------------------------------------------------------------------
\* FunctionStubNode.get_code
\* ------------------------------------------------------------------------

\* bisect(locations, x): the number of locations at or before x
Bisect(locations, x) == Cardinality({i \in 1..Len(locations) : locations[i] <= x})

\* parameter_types after the receiver adjustment
AdjustTypes(parameters, parameter_types) ==
    IF Len(parameters) > 0 /\ parameters[1] = SELF
    THEN <<<<>>>> \o parameter_types
    ELSE parameter_types

\* 'def name(params) -> rtype: ...\n'
SingleLinePrototype(name, parameter_stubs, return_type) ==
    <<"d", "e", "f", " ">> \o name \o <<"(">> \o Join(parameter_stubs, <<",", " ">>)
        \o <<")", " ", "-", ">", " ">> \o return_type \o <<":", " ", ".", ".", ".", "\n">>

\* 'def name(\n        p1,\n        p2\n) -> rtype: ...\n'
MultiLinePrototype(name, parameter_stubs, return_type) ==
    <<"d", "e", "f", " ">> \o name \o <<"(", "\n">> \o MULTILINE_STUB_INDENT
        \o Join(parameter_stubs, <<",", "\n">> \o MULTILINE_STUB_INDENT)
        \o <<"\n", ")", " ", "-", ">", " ">> \o return_type \o <<":", " ", ".", ".", ".", "\n">>

\* whether the single-line prototype is replaced by the wrapped one
TooLong(prototype) == Len(prototype) > LINE_LENGTH_LIMIT

\* [arg.arg for arg in ast_node.args.args]
Parameters(node) == [i \in 1..Len(node.args) |-> node.args[i].arg]

\* the indexes (from 0) of the parameters that have a default value: each
\* default is matched to the last parameter located before it
ParameterDefaults(node) ==
    LET parameter_locations == [i \in 1..Len(node.args) |-> node.args[i].col]
    IN  {Bisect(parameter_locations, node.defaults[d]) - 1 :
            d \in 1..Len(node.defaults)}

\* zip() pairs the names with the types; enumerate() counts from 0
ParameterStubs(parameters, parameter_types, parameter_defaults) ==
    [i \in 1..Len(parameters) |->
        get_parameter_declaration(parameters[i], parameter_types[i],
                                  (i - 1) \in parameter_defaults)]

\* the prototype, wrapped when the single line is too long
Prototype(name, parameter_stubs, return_type) ==
    LET prototype == SingleLinePrototype(name, parameter_stubs, return_type)
    IN  IF TooLong(prototype)
        THEN MultiLinePrototype(name, parameter_stubs, return_type)
        ELSE prototype

\* node: [name, signature, args: <<[arg, col]>>, defaults: <<col>>]; the
\* result is [exc, code], exc naming the exception that ended the call.
FunctionGetCode(node) ==
    IF Len(SignatureParts(node.signature)) # 2
    THEN [exc |-> "ValueError", code |-> <<>>]
    ELSE
    LET sig == parse_signature(node.signature)
        parameters == Parameters(node)
        parameter_types == AdjustTypes(parameters, sig.parameter_types)
    IN  IF Len(parameter_types) # Len(parameters)
        THEN [exc |-> "AssertionError", code |-> <<>>]
        ELSE [exc |-> "",
              code |-> Prototype(node.name,
                                 ParameterStubs(parameters, parameter_types,
                                                ParameterDefaults(node)),
                                 sig.return_type)]

\* ------------------------------------------------------------------------
\* Names found in a signature
\* ------------------------------------------------------------------------
Digits == {"0", "1", "2", "3", "4", "5", "6", "7", "8", "9"}
UpperCase == {"A", "B", "C", "D", "E", "F", "G", "H", "I", "J", "K", "L", "M",
              "N", "O", "P", "Q", "R", "S", "T", "U", "V", "W", "X", "Y", "Z"}
LowerCase == {"a", "b", "c", "d", "e", "f", "g", "h", "i", "j", "k", "l", "m",
              "n", "o", "p", "q", "r", "s", "t", "u", "v", "w", "x", "y", "z"}
\* the characters \w matches
WordChars == Digits \cup UpperCase \cup LowerCase \cup {"_"}

\* length of the longest prefix of s made of word characters
RECURSIVE WordRun(_)
WordRun(s) ==
    IF s = <<>> \/ Head(s) \notin WordChars THEN 0 ELSE 1 + WordRun(Tail(s))

\* length of the match of (?:\.\w+)* at the start of s
RECURSIVE DottedRun(_)
DottedRun(s) ==
    IF Len(s) >= 2 /\ s[1] = "." /\ s[2] \in WordChars
    THEN LET n == 1 + WordRun(Tail(s))
         IN  n + DottedRun(SubSeq(s, n + 1, Len(s)))
    ELSE 0

\* set(RE_NAMES.findall(s)) for RE_NAMES = \w+(?:\.\w+)*
RECURSIVE FindNames(_)
FindNames(s) ==
    IF s = <<>> THEN {}
    ELSE IF Head(s) \notin WordChars THEN FindNames(Tail(s))
    ELSE LET w == WordRun(s)
             n == w + DottedRun(SubSeq(s, w + 1, Len(s)))
         IN  {SubSeq(s, 1, n)} \cup FindNames(SubSeq(s, n + 1, Len(s)))

BUILTIN_TYPES ==
    {<<"i", "n", "t">>, <<"f", "l", "o", "a", "t">>, <<"b", "o", "o", "l">>, <<"s", "t", "r">>, <<"b", "y", "t", "e", "s">>, <<"u", "n", "i", "c", "o", "d", "e">>,
     <<"t", "u", "p", "l", "e">>, <<"l", "i", "s", "t">>, <<"s", "e", "t">>, <<"d", "i", "c", "t">>, <<"N", "o", "n", "e">>}

\* the names a signature adds to required_types
Requires(signature) == {n \in FindNames(signature) : n \notin BUILTIN_TYPES}

\* ------------------------------------------------------------------------
\* Ordering of names, for sorted()
\* ------------------------------------------------------------------------
\* the characters of names, by increasing code point
CodeOrder ==
    <<".", "0", "1", "2", "3", "4", "5", "6", "7", "8", "9",
      "A", "B", "C", "D", "E", "F", "G", "H", "I", "J", "K", "L", "M",
      "N", "O", "P", "Q", "R", "S", "T", "U", "V", "W", "X", "Y", "Z", "_",
      "a", "b", "c", "d", "e", "f", "g", "h", "i", "j", "k", "l", "m",
      "n", "o", "p", "q", "r", "s", "t", "u", "v", "w", "x", "y", "z">>

Ord(c) == CHOOSE k \in 1..Len(CodeOrder) : CodeOrder[k] = c

\* a < b for str
RECURSIVE TextLess(_, _)
TextLess(a, b) ==
    IF b = <<>> THEN FALSE
    ELSE IF a = <<>> THEN TRUE
    ELSE IF Ord(Head(a)) # Ord(Head(b)) THEN Ord(Head(a)) < Ord(Head(b))
    ELSE TextLess(Tail(a), Tail(b))

\* sorted(S)
RECURSIVE Sorted(_)
Sorted(S) ==
    IF S = {} THEN <<>>
    ELSE LET least == CHOOSE x \in S : \A y \in S \ {x} : TextLess(x, y)
         IN  <<least>> \o Sorted(S \ {least})

\* ------------------------------------------------------------------------
\* StubNode.get_code, ClassStubNode.get_code, VariableStubNode.get_code
\* ------------------------------------------------------------------------

\* textwrap.indent(body, prefix): the prefix goes before every line that is
\* not made of whitespace only
\* (the fallback defined for Python 2 gives the same text for a body that
\* ends a line, and a single line terminator for an empty body)
RECURSIVE IndentLines(_, _)
IndentLines(lines, prefix) ==
    IF lines = <<>> THEN <<>>
    ELSE (IF Strip(Head(lines)) # <<>> THEN prefix \o Head(lines)
          ELSE Head(lines))
         \o IndentLines(Tail(lines), prefix)

indent(body, prefix) == IndentLines(SplitLines(body), prefix)

\* self.children of the node with this id, in the order they were added
RECURSIVE ChildrenFrom(_, _, _)
ChildrenFrom(tree, id, j) ==
    IF j > Len(tree) THEN <<>>
    ELSE (IF tree[j].parent = id THEN <<j>> ELSE <<>>)
         \o ChildrenFrom(tree, id, j + 1)

Children(tree, id) == ChildrenFrom(tree, id, 1)

VariableGetCode(node) ==
    node.name \o <<" ", "=", " ", ".", ".", ".">> \o <<" ", "#", " ", "t", "y", "p", "e", ":", " ">> \o node.type_ \o <<"\n">>

\* get_code of the node with this id (0 is the root StubNode); an exception
\* raised while rendering a descendant ends the whole call
RECURSIVE GetCode(_, _)
RECURSIVE ChildrenCode(_, _, _)
ChildrenCode(tree, id, ch) ==
    IF ch = <<>> THEN [exc |-> "", code |-> <<>>]
    ELSE LET first == GetCode(tree, Head(ch))
         IN  IF first.exc # "" THEN first
             ELSE LET rest == ChildrenCode(tree, id, Tail(ch))
                  IN  IF rest.exc # "" THEN rest
                      ELSE [exc |-> "",
                            code |-> first.code \o rest.code]

GetCode(tree, id) ==
    IF id = 0 THEN ChildrenCode(tree, id, Children(tree, id))
    ELSE IF tree[id].kind = "function" THEN FunctionGetCode(tree[id])
    ELSE IF tree[id].kind = "variable"
         THEN [exc |-> "", code |-> VariableGetCode(tree[id])]
    ELSE LET body == ChildrenCode(tree, id, Children(tree, id))
         IN  IF body.exc # "" THEN body
             ELSE [exc |-> "",
                   code |-> <<"c", "l", "a", "s", "s", " ">> \o tree[id].name \o <<":", "\n">>
                                \o indent(body.code, INDENT)]

\* ------------------------------------------------------------------------
\* SignatureCollector: state after construction
\* ------------------------------------------------------------------------
NoGroups == [imported_types |-> {}, dotted_types |-> {}, typing_types |-> {},
             needed_types |-> {}]

InitCollector ==
    /\ stub_tree = <<>>
    /\ units = <<0>>
    /\ imported_names = <<>>
    /\ defined_types = {}
    /\ required_types = {}
    /\ init_omitted = FALSE
    /\ calls = 0
    /\ groups = NoGroups
    /\ status = "none"
    /\ out = <<>>
    /\ stderr = <<>>
    /\ file = NoFile

\* traverse() runs before get_stub()
Traversing == calls = 0

\* a stub node; the fields a kind does not have are left empty
ClassStubNode(parent, name, signature) ==
    [kind |-> "class", name |-> name, signature |-> signature,
     parent |-> parent, args |-> <<>>, defaults |-> <<>>, own |-> None,
     type_ |-> <<>>]

\* own is get_signature(ast_node), the signature in the docstring of the
\* function the node keeps as self.ast_node
FunctionStubNode(parent, name, signature, ast_node) ==
    [kind |-> "function", name |-> name, signature |-> signature,
     parent |-> parent, args |-> ast_node.args, defaults |-> ast_node.defaults,
     own |-> ast_node.signature, type_ |-> <<>>]

VariableStubNode(parent, name, type_) ==
    [kind |-> "variable", name |-> name, signature |-> None,
     parent |-> parent, args |-> <<>>, defaults |-> <<>>, own |-> None,
     type_ |-> type_]

\* self.imported_names[name] = module on an OrderedDict: a new key goes
\* last, a known key keeps its place
SetItem(od, name, module) ==
    IF \E i \in 1..Len(od) : od[i][1] = name
    THEN [i \in 1..Len(od) |->
            IF od[i][1] = name THEN <<name, module>> ELSE od[i]]
    ELSE Append(od, <<name, module>>)

RECURSIVE SetItems(_, _, _)
SetItems(od, names, module) ==
    IF names = <<>> THEN od
    ELSE SetItems(SetItem(od, Head(names), module), Tail(names), module)

\* ------------------------------------------------------------------------
\* visit_ImportFrom
\* ------------------------------------------------------------------------
VisitImportFrom(module, names) ==
    /\ Traversing
    /\ imported_names' = SetItems(imported_names, names, module)
    /\ UNCHANGED <<stub_tree, units, defined_types, required_types,
                   typing_installed, init_omitted, calls, groups, status, out,
                   stderr, file>>

\* ------------------------------------------------------------------------
\* visit_ClassDef, up to its generic_visit call
\* ------------------------------------------------------------------------
VisitClassDef(name, signature) ==
    /\ Traversing
    /\ Len(stub_tree) < MaxNodes /\ Len(units) <= MaxDepth
    /\ defined_types' = defined_types \cup {name}
    /\ required_types' = IF signature # None
                         THEN required_types \cup Requires(signature)
                         ELSE required_types
    /\ LET parent == units[Len(units)]
       IN  /\ stub_tree' = Append(stub_tree,
                                  ClassStubNode(parent, name, signature))
           /\ units' = Append(units, Len(stub_tree) + 1)
    /\ UNCHANGED <<imported_names, typing_installed, init_omitted, calls,
                   groups, status, out, stderr, file>>

\* ------------------------------------------------------------------------
\* visit_FunctionDef, up to its generic_visit call
\* ------------------------------------------------------------------------

\* A plausible slip: any method without a signature takes the class's.
AnyMethodInherits(tree, parent, name) ==
    IF parent # 0 /\ tree[parent].kind = "class"
    THEN tree[parent].signature
    ELSE None

\* the signature a function without one takes from units[-1]
InheritedSignature(tree, parent, name) ==
    IF parent # 0 /\ tree[parent].kind = "class" /\ name = INIT_NAME
    THEN tree[parent].signature
    ELSE None

\* whether units[-1] is a class node that has a signature
InSignedClass(tree, parent) ==
    IF parent = 0 THEN FALSE
    ELSE tree[parent].kind = "class" /\ tree[parent].signature # None

\* A function that ends without a signature gets no stub node, and
\* generic_visit is not called for it: nothing inside it is visited.
VisitFunctionDef(name, ast_node) ==
    /\ Traversing
    /\ LET signature ==
               IF ast_node.signature = None
               THEN InheritedSignature(stub_tree, units[Len(units)], name)
               ELSE ast_node.signature
           parent == units[Len(units)]
       IN  IF signature # None
           THEN /\ Len(stub_tree) < MaxNodes /\ Len(units) <= MaxDepth
                /\ required_types' = required_types \cup Requires(signature)
                /\ stub_tree' = Append(stub_tree,
                        FunctionStubNode(parent, name, signature, ast_node))
                /\ units' = Append(units, Len(stub_tree) + 1)
                /\ UNCHANGED init_omitted
           ELSE /\ init_omitted' =
                    (init_omitted \/ (name = INIT_NAME /\ InSignedClass(stub_tree, parent)))
                /\ UNCHANGED <<required_types, stub_tree, units>>
    /\ UNCHANGED <<imported_names, defined_types, typing_installed, calls,
                   groups, status, out, stderr, file>>

\* ------------------------------------------------------------------------
\* The end of visit_ClassDef and visit_FunctionDef, after generic_visit has
\* visited the body: del self.units[-1]
\* ------------------------------------------------------------------------
EndVisit ==
    /\ Traversing
    /\ Len(units) > 1
    /\ units' = SubSeq(units, 1, Len(units) - 1)
    /\ UNCHANGED <<stub_tree, imported_names, defined_types, required_types,
                   typing_installed, init_omitted, calls, groups, status, out,
                   stderr, file>>

\* ------------------------------------------------------------------------
\* visit_Assign
\* ------------------------------------------------------------------------

\* the targets visit_Assign makes a variable node for
Supported(var) ==
    \/ var.kind = "Name"
    \/ var.kind = "Attribute" /\ var.value = SELF

RECURSIVE VariableNodes(_, _, _)
VariableNodes(parent, targets, type_) ==
    IF targets = <<>> THEN <<>>
    ELSE (IF Supported(Head(targets))
          THEN <<VariableStubNode(parent, Head(targets).name, Strip(type_))>>
          ELSE <<>>)
         \o VariableNodes(parent, Tail(targets), type_)

VisitAssign(stmt) ==
    /\ Traversing
    /\ LET has_marker == Contains(stmt.line, SIGNATURE_COMMENT)
           type_ == SplitOn(stmt.line, SIGNATURE_COMMENT)[2]
           parent == units[Len(units)]
           new == IF has_marker
                  THEN VariableNodes(parent, stmt.targets, type_)
                  ELSE <<>>
       IN  /\ Len(stub_tree) + Len(new) <= MaxNodes
           /\ stub_tree' = stub_tree \o new
    /\ UNCHANGED <<units, imported_names, defined_types, required_types,
                   typing_installed, init_omitted, calls, groups, status, out,
                   stderr, file>>

\* ------------------------------------------------------------------------
\* SignatureCollector.get_stub
\* ------------------------------------------------------------------------

\* the attributes of the typing module among the names of the model
TypingNames == {<<"L", "i", "s", "t">>, <<"D", "i", "c", "t">>, <<"O", "p", "t", "i", "o", "n", "a", "l">>}

Keys(od) == {od[i][1] : i \in 1..Len(od)}

\* A plausible slip: the imported names are looked up among all required
\* names, before the locally defined ones are taken out.
ResolveImportsFirst(required, defined, imported, has_typing) ==
    LET imported_types == {n \in Keys(imported) : n \in required}
        needed1 == (required \ defined) \ imported_types
        dotted_types == {n \in needed1 : "." \in Range(n)}
        needed2 == needed1 \ dotted_types
        typing_types == IF has_typing
                        THEN {n \in needed2 : n \in TypingNames}
                        ELSE {}
    IN  [imported_types |-> imported_types,
         dotted_types |-> dotted_types,
         typing_types |-> typing_types,
         needed_types |-> needed2 \ typing_types]

\* the groups get_stub puts the required names in, and the names left over
Resolve(required, defined, imported, has_typing) ==
    LET needed0 == required \ defined
        imported_types == {n \in Keys(imported) : n \in needed0}
        needed1 == needed0 \ imported_types
        dotted_types == {n \in needed1 : "." \in Range(n)}
        needed2 == needed1 \ dotted_types
        typing_types == IF has_typing
                        THEN {n \in needed2 : n \in TypingNames}
                        ELSE {}
    IN  [imported_types |-> imported_types,
         dotted_types |-> dotted_types,
         typing_types |-> typing_types,
         needed_types |-> needed2 \ typing_types]

\* A plausible slip: a single unknown name is let through.
AbortsOnSeveral(needed_types) == Cardinality(needed_types) > 1

\* whether get_stub ends the run
Aborts(needed_types) == Cardinality(needed_types) > 0

\* 'Unknown types: ' + ', '.join(names) + '\n'
Diagnostic(names) == <<"U", "n", "k", "n", "o", "w", "n", " ", "t", "y", "p", "e", "s", ":", " ">> \o Join(names, <<",", " ">>) \o <<"\n">>

\* '.'.join(n.split('.')[:-1])
ModuleOf(n) ==
    LET parts == SplitOn(n, <<".">>)
    IN  Join(SubSeq(parts, 1, Len(parts) - 1), <<".">>)

RECURSIVE ImportFromLines(_, _)
ImportFromLines(imported, imported_types) ==
    IF imported = <<>> THEN <<>>
    ELSE (IF Head(imported)[1] \in imported_types
          THEN <<"f", "r", "o", "m", " ">> \o Head(imported)[2] \o <<" ", "i", "m", "p", "o", "r", "t", " ">>
                    \o Head(imported)[1] \o <<"\n">>
          ELSE <<>>)
         \o ImportFromLines(Tail(imported), imported_types)

RECURSIVE ImportLines(_)
ImportLines(modules) ==
    IF modules = <<>> THEN <<>>
    ELSE <<"i", "m", "p", "o", "r", "t", " ">> \o Head(modules) \o <<"\n">> \o ImportLines(Tail(modules))

\* the text get_stub writes before the code of the stub tree
ImportPlan(r, imported) ==
    LET typing_part ==
            IF r.typing_types # {}
            THEN <<"f", "r", "o", "m", " ", "t", "y", "p", "i", "n", "g", " ", "i", "m", "p", "o", "r", "t", " ">>
                    \o Join(Sorted(r.typing_types), <<",", " ">>) \o <<"\n">>
            ELSE <<>>
        imported_part ==
            IF r.imported_types # {}
            THEN (IF r.typing_types # {} THEN <<"\n">> ELSE <<>>)
                    \o ImportFromLines(imported, r.imported_types)
            ELSE <<>>
        dotted_part ==
            IF r.dotted_types # {}
            THEN (IF r.typing_types # {} \/ r.imported_types # {}
                  THEN <<"\n">> ELSE <<>>)
                    \o ImportLines(Sorted({ModuleOf(n) : n \in r.dotted_types}))
            ELSE <<>>
        started == r.typing_types # {} \/ r.imported_types # {}
                        \/ r.dotted_types # {}
    IN  typing_part \o imported_part \o dotted_part
            \o (IF started THEN <<"\n", "\n">> ELSE <<>>)

\* needed_types is self.required_types itself, so every `-=` also takes the
\* names out of self.required_types.  The order in which the unknown names
\* are printed is the iteration order of a set.
GetStub ==
    /\ Len(units) = 1
    /\ calls < MaxCalls
    /\ status \in {"none", "returned"}
    /\ calls' = calls + 1
    /\ LET r == Resolve(required_types, defined_types, imported_names,
                        typing_installed)
           body == GetCode(stub_tree, 0)
       IN  /\ required_types' = r.needed_types
           /\ groups' = r
           /\ IF Aborts(r.needed_types)
              THEN /\ status' = "exit 1"
                   /\ \E names \in Orderings(r.needed_types) :
                        stderr' = Diagnostic(names)
                   /\ out' = <<>>
              ELSE IF body.exc # ""
              THEN /\ status' = body.exc
                   /\ out' = <<>>
                   /\ UNCHANGED stderr
              ELSE /\ status' = "returned"
                   /\ out' = ImportPlan(r, imported_names) \o body.code
                   /\ UNCHANGED stderr
    /\ UNCHANGED <<stub_tree, units, imported_names, defined_types,
                   typing_installed, init_omitted, file>>

\* ------------------------------------------------------------------------
\* main, after get_stub(code) has returned: write the stub file
\* ------------------------------------------------------------------------
WriteStub ==
    /\ calls = 1
    /\ status = "returned"
    /\ file = NoFile
    /\ out # <<>>
    /\ file' = <<"#", " ">> \o EDIT_WARNING \o <<"\n", "\n">> \o out
    /\ UNCHANGED <<stub_tree, units, imported_names, defined_types,
                   required_types, typing_installed, init_omitted, calls,
                   groups, status, out, stderr>>

\* ------------------------------------------------------------------------
\* The sources the collector is run on
\* ------------------------------------------------------------------------
ClassNames == {<<"A">>, <<"B">>}
FunctionNames == {INIT_NAME, <<"f">>}
ImportableNames == {<<"A">>, <<"L", "i", "s", "t">>}
Modules == {<<"m">>}

\* '(A) -> int' and '(List[A, m.B]) -> None'
Signatures == {<<"(", "A", ")", " ", "-", ">", " ", "i", "n", "t">>, <<"(", "L", "i", "s", "t", "[", "A", ",", " ", "m", ".", "B", "]", ")", " ", "-", ">", " ", "N", "o", "n", "e">>}

\* ast arguments: Arg(name, col) is a parameter at a column
Arg(name, col) == [arg |-> name, col |-> col]

\* 'def f(self, a):' with this signature in its docstring (or None)
Method(signature) ==
    [args |-> <<Arg(SELF, 6), Arg(<<"a">>, 12)>>, defaults |-> <<>>,
     signature |-> signature]

Target(kind, value, name) == [kind |-> kind, value |-> value, name |-> name]

AssignStatements ==
    {[line |-> <<"x", " ", "=", " ", "1", " ", "#", " ", "s", "i", "g", ":", " ", "i", "n", "t">>,
      targets |-> <<Target("Name", <<>>, <<"x">>)>>],
     [line |-> <<"s", "e", "l", "f", ".", "y", " ", "=", " ", "1", " ", "#", " ", "s", "i", "g", ":", " ", "i", "n", "t">>,
      targets |-> <<Target("Attribute", SELF, <<"y">>)>>],
     [line |-> <<"o", ".", "z", " ", "=", " ", "1", " ", "#", " ", "s", "i", "g", ":", " ", "i", "n", "t">>,
      targets |-> <<Target("Attribute", <<"o">>, <<"z">>)>>],
     [line |-> <<"x", " ", "=", " ", "1">>,
      targets |-> <<Target("Name", <<>>, <<"x">>)>>]}

NameLists == UNION {Orderings(S) : S \in (SUBSET ImportableNames) \ {{}}}

InitSplitIdle == entries = <<>> /\ segment = <<>> /\ types = NotSplit
InitFnIdle == fn_node = None /\ fn_code = Pending

\* ------------------------------------------------------------------------
\* Spec: the collector run on sources with imports, classes without a
\* signature and functions, with or without the typing module
\* ------------------------------------------------------------------------
Init ==
    /\ InitCollector
    /\ typing_installed \in BOOLEAN
    /\ InitSplitIdle /\ InitFnIdle

Next ==
    \/ \E module \in Modules, names \in NameLists :
            VisitImportFrom(module, names) /\ UNCHANGED <<splitVars, fnVars>>
    \/ \E name \in ClassNames :
            VisitClassDef(name, None) /\ UNCHANGED <<splitVars, fnVars>>
    \/ \E signature \in Signatures \cup {None} :
            VisitFunctionDef(<<"f">>, Method(signature))
                /\ UNCHANGED <<splitVars, fnVars>>
    \/ EndVisit /\ UNCHANGED <<splitVars, fnVars>>
    \/ GetStub /\ UNCHANGED <<splitVars, fnVars>>
    \/ WriteStub /\ UNCHANGED <<splitVars, fnVars>>

Spec == Init /\ [][Next]_vars

\* ------------------------------------------------------------------------
\* SpecTree: the collector run on sources with nested classes, functions
\* and assignments, with the typing module
\* ------------------------------------------------------------------------
InitTree ==
    /\ InitCollector
    /\ typing_installed = TRUE
    /\ InitSplitIdle /\ InitFnIdle

NextTree ==
    \/ \E signature \in Signatures \cup {None} :
            VisitClassDef(<<"A">>, signature) /\ UNCHANGED <<splitVars, fnVars>>
    \/ \E name \in FunctionNames, signature \in Signatures \cup {None} :
            VisitFunctionDef(name, Method(signature))
                /\ UNCHANGED <<splitVars, fnVars>>
    \/ EndVisit /\ UNCHANGED <<splitVars, fnVars>>
    \/ \E stmt \in AssignStatements :
            VisitAssign(stmt) /\ UNCHANGED <<splitVars, fnVars>>
    \/ GetStub /\ UNCHANGED <<splitVars, fnVars>>
    \/ WriteStub /\ UNCHANGED <<splitVars, fnVars>>

SpecTree == InitTree /\ [][NextTree]_vars

\* ------------------------------------------------------------------------
\* SpecSplit: split_parameter_types applied to a segment
\* ------------------------------------------------------------------------
InitCollectorIdle == InitCollector /\ typing_installed = TRUE

InitSplitSpec == InitSplit /\ InitFnIdle /\ InitCollectorIdle

NextSplit == SplitParameterTypes /\ UNCHANGED <<fnVars, collectorVars>>

SpecSplit == InitSplitSpec /\ [][NextSplit]_vars

\* ------------------------------------------------------------------------
\* SpecFn: FunctionStubNode.get_code applied to a function node
\* ------------------------------------------------------------------------

\* a name of n characters
LongName(n) == [i \in 1..n |-> "x"]

\* with the parameters (self, a) and the signature '(A) -> int', a name of
\* LINE_LENGTH_LIMIT - 28 characters makes a line of LINE_LENGTH_LIMIT
FnNames ==
    {INIT_NAME, <<"f">>}
    \cup {LongName(n) : n \in (LINE_LENGTH_LIMIT - 29)..(LINE_LENGTH_LIMIT - 27)}

\* the last one has no arrow
FnSignatures ==
    {<<"(", ")", " ", "-", ">", " ", "N", "o", "n", "e">>, <<"(", "A", ")", " ", "-", ">", " ", "i", "n", "t">>, <<"(", "B", ",", " ", "A", ")", " ", "-", ">", " ", "i", "n", "t">>,
     <<"(", "L", "i", "s", "t", "[", "A", ",", " ", "m", ".", "B", "]", ")", " ", "-", ">", " ", "N", "o", "n", "e">>, <<"(", "A", ")">>}

\* (), (self), (self, a), (a), (a, b=1), (self, a=1)
FnArgLists ==
    {[args |-> <<>>, defaults |-> <<>>],
     [args |-> <<Arg(SELF, 6)>>, defaults |-> <<>>],
     [args |-> <<Arg(SELF, 6), Arg(<<"a">>, 12)>>, defaults |-> <<>>],
     [args |-> <<Arg(<<"a">>, 6)>>, defaults |-> <<>>],
     [args |-> <<Arg(<<"a">>, 6), Arg(<<"b">>, 9)>>, defaults |-> <<11>>],
     [args |-> <<Arg(SELF, 6), Arg(<<"a">>, 12)>>, defaults |-> <<14>>]}

InitFn ==
    /\ \E name \in FnNames, signature \in FnSignatures, ast \in FnArgLists :
            fn_node = FunctionStubNode(0, name, signature,
                        [args |-> ast.args, defaults |-> ast.defaults,
                         signature |-> signature])
    /\ fn_code = Pending
    /\ InitSplitIdle /\ InitCollectorIdle

RenderFunction ==
    /\ fn_code = Pending
    /\ fn_code' = FunctionGetCode(fn_node)
    /\ UNCHANGED fn_node

NextFn == RenderFunction /\ UNCHANGED <<splitVars, collectorVars>>

SpecFn == InitFn /\ [][NextFn]_vars

\* ========================================================================
\* Properties
\* ========================================================================

\* every name found in the signatures kept by the class and function nodes
AllNames(tree) ==
    UNION {FindNames(tree[i].signature) :
            i \in {k \in 1..Len(tree) : tree[k].signature # None}}

\* the provenance of a name, by precedence
ProvenanceOf(n) ==
    IF n \in BUILTIN_TYPES THEN "builtin"
    ELSE IF n \in defined_types THEN "locally-defined"
    ELSE IF n \in Keys(imported_names) THEN "imported-explicit"
    ELSE IF "." \in Range(n) THEN "dotted-qualified"
    ELSE IF typing_installed /\ n \in TypingNames THEN "generic-extension"
    ELSE "unresolved"

UnresolvedNames == {n \in AllNames(stub_tree) : ProvenanceOf(n) = "unresolved"}

\* C1: once get_stub has been called on a collector with at least one
\* unresolved required name, the run has ended with exit status 1, the
\* diagnostic lists every unresolved name, no stub text was returned and no
\* stub file was written.
C1_UnresolvedAborts ==
    (calls >= 1 /\ UnresolvedNames # {}) =>
        /\ status = "exit 1"
        /\ \E names \in Orderings(UnresolvedNames) : stderr = Diagnostic(names)
        /\ out = <<>>
        /\ file = NoFile

\* the run aborted on two unresolved names
C1_Witness ==
    /\ status = "exit 1"
    /\ Cardinality(UnresolvedNames) = 2

\* the group of g a name is in
GroupsOf(n, g) ==
    {k \in {"imported-explicit", "dotted-qualified", "generic-extension",
            "unresolved"} :
        \/ k = "imported-explicit" /\ n \in g.imported_types
        \/ k = "dotted-qualified" /\ n \in g.dotted_types
        \/ k = "generic-extension" /\ n \in g.typing_types
        \/ k = "unresolved" /\ n \in g.needed_types}

\* 'from module import name\n'
ImportFromLine(entry) ==
    <<"f", "r", "o", "m", " ">> \o entry[2] \o <<" ", "i", "m", "p", "o", "r", "t", " ">> \o entry[1] \o <<"\n">>

\* C2: every call of get_stub puts each required name in the one group its
\* provenance selects by the precedence builtin, locally defined, imported,
\* dotted, generic extension, else unresolved: builtin and locally defined
\* names are in no group, and an import line is written for a name exactly
\* when its provenance is imported-explicit.  On the first call the required
\* names are all the non-builtin names of the signatures.
C2_Precedence ==
    [][(calls' = calls + 1) =>
        /\ (calls = 0 =>
                required_types = AllNames(stub_tree) \ BUILTIN_TYPES)
        /\ \A n \in AllNames(stub_tree) :
                ProvenanceOf(n) \in {"builtin", "locally-defined"}
                    => GroupsOf(n, groups') = {}
        /\ \A n \in required_types :
                GroupsOf(n, groups') =
                    IF ProvenanceOf(n) \in {"builtin", "locally-defined"}
                    THEN {} ELSE {ProvenanceOf(n)}
        /\ status' = "returned" =>
                \A i \in 1..Len(imported_names) :
                    Contains(out', ImportFromLine(imported_names[i]))
                        <=> (/\ imported_names[i][1] \in required_types
                             /\ ProvenanceOf(imported_names[i][1])
                                    = "imported-explicit")
      ]_vars

\* get_stub returned for a source that requires a name which is both
\* locally defined and imported, and a name which is both imported and an
\* attribute of typing
C2_Witness ==
    /\ calls = 1
    /\ status = "returned"
    /\ \E n \in AllNames(stub_tree) :
            n \in defined_types /\ n \in Keys(imported_names)
    /\ \E n \in groups.imported_types : typing_installed /\ n \in TypingNames

\* C3: for a segment written from N >= 1 entries whose commas are all
\* inside brackets, split_parameter_types returns the N entries, in order,
\* each stripped of surrounding whitespace; for the empty segment it
\* returns the empty list.
C3_SplitYieldsEntries ==
    types.called =>
        IF segment = <<>> THEN types.value = <<>>
        ELSE types.value = [i \in 1..Len(entries) |-> Strip(entries[i])]

\* a segment of two entries was split, one of them with a comma inside two
\* levels of brackets
C3_Witness ==
    /\ types.called
    /\ Len(entries) = 2
    /\ Len(types.value) = 2
    /\ \E i \in 1..Len(entries) : \E k \in 1..Len(entries[i]) :
            entries[i][k] = "," /\ DepthAt(entries[i], k) >= 2

\* the lines of a text, without their terminators
Lines(text) ==
    LET ls == SplitLines(text)
    IN  [k \in 1..Len(ls) |->
            IF ls[k][Len(ls[k])] = "\n" THEN SubSeq(ls[k], 1, Len(ls[k]) - 1)
            ELSE ls[k]]

IndentOf(line) == Len(line) - Len(LStrip(line))
IsBlank(line) == Strip(line) = <<>>
IsClassHeader(line) == StartsWith(LStrip(line), <<"c", "l", "a", "s", "s", " ">>)
IsBlockStart(line) ==
    \/ IsClassHeader(line)
    \/ StartsWith(LStrip(line), <<"d", "e", "f", " ">>)
    \/ Contains(line, <<" ", "=", " ", ".", ".", ".", " ", "#", " ", "t", "y", "p", "e", ":", " ">>)

\* C4: once the tree is built and rendered, no class node is without
\* children, and the stub has no class header with an empty body.
C4_NoEmptyClass ==
    (Len(units) = 1 /\ status = "returned") =>
        /\ \A i \in 1..Len(stub_tree) :
                stub_tree[i].kind = "class" => Children(stub_tree, i) # <<>>
        /\ LET ls == Lines(out)
           IN  \A k \in 1..Len(ls) :
                    IsClassHeader(ls[k]) =>
                        IF k = Len(ls) THEN FALSE
                        ELSE IndentOf(ls[k + 1]) > IndentOf(ls[k])

\* the parameter types FunctionStubNode.get_code is claimed to pair the
\* names with: the placeholder goes first exactly when the first parameter
\* is self and the list is one short
ClaimedTypes(parameters, parameter_types) ==
    IF /\ Len(parameters) > 0
       /\ parameters[1] = SELF
       /\ Len(parameter_types) = Len(parameters) - 1
    THEN <<<<>>>> \o parameter_types
    ELSE parameter_types

\* C5: for a signature that parses, get_code pairs the names with the
\* claimed types whenever their counts agree; in particular a function
\* whose first parameter is self and whose signature lists a type for every
\* parameter is rendered with the types as given.
C5_ReceiverRule ==
    (fn_code # Pending /\ Len(SignatureParts(fn_node.signature)) = 2) =>
        LET sig == parse_signature(fn_node.signature)
            parameters == Parameters(fn_node)
            claimed == ClaimedTypes(parameters, sig.parameter_types)
        IN  Len(claimed) = Len(parameters) =>
                /\ fn_code.exc = ""
                /\ fn_code.code =
                        Prototype(fn_node.name,
                                  ParameterStubs(parameters, claimed,
                                                 ParameterDefaults(fn_node)),
                                  sig.return_type)

\* a function node that has no signature of its own
Borrowed(f) == f.kind = "function" /\ f.own = None

\* whether get_code of the root reaches the node: all the nodes above it
\* are class nodes (FunctionStubNode.get_code does not render children)
RECURSIVE Shown(_, _)
Shown(tree, i) ==
    IF tree[i].parent = 0 THEN TRUE
    ELSE tree[tree[i].parent].kind = "class" /\ Shown(tree, tree[i].parent)

C7_RenderIdempotent ==
    [][(calls = 1 /\ calls' = 2) => out' = out]_vars

\* C8: a function stub is wrapped if and only if its single-line
\* declaration, without the line terminator, is longer than
\* LINE_LENGTH_LIMIT; the wrapped form has one parameter per line.
C8_WrapsOverLimit ==
    (fn_code # Pending /\ fn_code.exc = "") =>
        LET sig == parse_signature(fn_node.signature)
            parameters == Parameters(fn_node)
            stubs == ParameterStubs(parameters,
                                    AdjustTypes(parameters, sig.parameter_types),
                                    ParameterDefaults(fn_node))
            single == SingleLinePrototype(fn_node.name, stubs, sig.return_type)
            line == SubSeq(single, 1, Len(single) - 1)
        IN  IF Len(line) > LINE_LENGTH_LIMIT
            THEN fn_code.code =
                    MultiLinePrototype(fn_node.name, stubs, sig.return_type)
            ELSE fn_code.code = single

\* C9: in the returned stub, a block at module scope that follows another
\* block is preceded by exactly two blank lines, and a block in a class
\* that follows a sibling block is preceded by exactly one blank line.
C9_BlankLines ==
    status = "returned" =>
        LET ls == Lines(out)
        IN  \A k \in 1..Len(ls) :
                IsBlockStart(ls[k]) =>
                    IF IndentOf(ls[k]) = 0
                    THEN (\E j \in 1..(k - 1) : IsBlockStart(ls[j])) =>
                            /\ k > 3
                            /\ IsBlank(ls[k - 1])
                            /\ IsBlank(ls[k - 2])
                            /\ ~IsBlank(ls[k - 3])
                    ELSE LET before == {j \in 1..(k - 1) : ~IsBlank(ls[j])}
                             p == CHOOSE j \in before : \A q \in before : q <= j
                         IN  (before # {} /\ IndentOf(ls[p]) >= IndentOf(ls[k]))
                                => p = k - 2

\* C10: when the stub is returned, the variable node of every marked
\* assignment that was visited is a child of a class node or of the root,
\* and its line is in the stub.
C10_VariableInClass ==
    status = "returned" =>
        \A i \in 1..Len(stub_tree) :
            stub_tree[i].kind = "variable" =>
                /\ IF stub_tree[i].parent = 0 THEN TRUE
                   ELSE stub_tree[stub_tree[i].parent].kind = "class"
                /\ Contains(out, VariableGetCode(stub_tree[i]))

====
